---- MODULE Spec2Model ----
(***************************************************************************)
(* State-machine model of churn_project: the enrichment pipeline           *)
(* (modeling/enrich.py: EnriquecimentoDataset, EnriquecimentoDatasetTelco) *)
(* and the project-root lookup (modeling/dataloader.py: diretorio_raiz).   *)
(*                                                                         *)
(* Conventions.                                                            *)
(*  - A DataFrame is a record [n, cols]: n rows, cols a function from      *)
(*    column name to a sequence of n values.                               *)
(*  - Label values of the Churn column are written as strings: "Yes",      *)
(*    "No", "Maybe" are text values; "1" and "0" stand for the NUMBERS 1   *)
(*    and 0 (int or float), "NaN" for the missing value.                   *)
(*  - An exception is the chain of its kinds, outermost first:             *)
(*    <<"CustomException", "KeyError">> is CustomException(KeyError(..)).  *)
(*    <<>> is "no exception".                                              *)
(*  - Buffers live in a heap; a pipeline object holds the id of its        *)
(*    buffer, so aliasing and copying are distinguishable.                 *)
(*  - A path is a sequence of one-character strings.                       *)
(***************************************************************************)
EXTENDS Integers, Sequences, FiniteSets, TLC

\* ---------------------------------------------------------------- bounds
MaxRows == 2
MaxOps == 3
MaxConcRows == 1
MaxDepth == 3

\* ------------------------------------------------------ program constants
SEED == 42
LoginsLamChurn == 2
LoginsLamStay == 10
TicketsLamChurn == 3
TicketsLamStay == 1
DaysLoChurn == 15
DaysHiChurn == 60
DaysLoStay == 1
DaysHiStay == 15
UsageLam == 10
UsageLen == 6

VARIABLES
    heap,       \* buffer id -> DataFrame (id 0: the caller's, id i: object i's)
    given,      \* the DataFrame the caller passed, as it was at construction
    df,         \* object -> id of self.df, or None before construction
    rng,        \* state of the process-wide generator np.random
    exc,        \* exception raised by the last call (<<>>: none)
    ret,        \* value returned by the last call
    hist,       \* object -> the enrichment calls made on it so far, in order
    pc,         \* thread -> position in its program (concurrent spec)
    idx,        \* thread -> draw call of gerar_features_interacao (1..6), then
                \*           row of the per-row apply of gerar_features_uso_recente
    tmp,        \* thread -> locals: the vector / list drawn so far
    start,      \* thread -> generator state when its enrichment began
    foreign,    \* thread -> did another consumer draw during its enrichment
    fsFiles,    \* file system: the regular files, as records [path, data]
    fsDirs,     \* file system: paths that are directories
    io,         \* I/O effects performed by the last call, in order
    call,       \* the last from_file / salvar call: <<method, path>>
    rootStart,  \* diretorio_raiz: start_path, as a sequence of components
    rootMarkers,\* directories that contain pyproject.toml
    rootRet     \* diretorio_raiz: returned directory, or Pending

pipeVars == <<heap, given, df, rng, exc, ret, hist>>
concVars == <<pc, idx, tmp, start, foreign>>
ioVars == <<fsFiles, fsDirs, io, call>>
rootVars == <<rootStart, rootMarkers, rootRet>>
vars == <<heap, given, df, rng, exc, ret, hist, pc, idx, tmp, start, foreign,
          fsFiles, fsDirs, io, call, rootStart, rootMarkers, rootRet>>

Insts == {1, 2}
None == -1
CallerBuf == 0

\* ------------------------------------------------------------ exceptions
NoExc == <<>>
Raised(kind) == <<kind>>
CustomException(e) == <<"CustomException">> \o e
Kind(e) == IF e = <<>> THEN "none" ELSE Head(e)

\* ------------------------------------------------------------ DataFrames
NoFrame == [n |-> 0, cols |-> [c \in {} |-> <<>>]]
HasCol(tab, c) == c \in DOMAIN tab.cols
Columns(tab) == DOMAIN tab.cols
SetCol(tab, c, vals) ==
    [tab EXCEPT !.cols = [k \in (DOMAIN tab.cols) \cup {c} |->
                            IF k = c THEN vals ELSE tab.cols[k]]]

FeatureColumns == {"num_logins_last_30d", "support_tickets_last_90d",
                   "last_interaction_days_ago", "usage_last_6m",
                   "trend_usage", "std_usage", "avg_usage_last_3m"}

\* ---------------------------------------------------- the shared generator
\* np.random is modelled as a full-period congruential generator on 64
\* states; a draw reads the state and advances it by one.
NextRng(s) == (5 * s + 3) % 64
Seeded(seed) == seed % 64

RECURSIVE Advance(_, _)
Advance(s, k) == IF k = 0 THEN s ELSE Advance(NextRng(s), k - 1)

PoissonValue(lam, s) == (s + lam) % 32
Poisson(lam, size, s) == [k \in 1..size |-> PoissonValue(lam, Advance(s, k - 1))]
RandInt(lo, hi, size, s) == [k \in 1..size |-> lo + (Advance(s, k - 1) % (hi - lo))]

Where(cond, a, b) == [k \in 1..Len(cond) |-> IF cond[k] THEN a[k] ELSE b[k]]

\* -------------------------------------------------- preparar_coluna_churn
MapChurnUnmatchedKept(v) ==
    CASE v = "Yes" -> "1" [] v = "No" -> "0" [] OTHER -> v
MapChurn(v) ==
    CASE v = "Yes" -> "1" [] v = "No" -> "0" [] OTHER -> "NaN"

PrepararColunaChurn(tab, s) ==
    IF ~HasCol(tab, "Churn")
    THEN [tab |-> tab, rng |-> s, exc |-> CustomException(Raised("KeyError"))]
    ELSE [tab |-> SetCol(tab, "Churn",
                         [k \in 1..tab.n |-> MapChurn(tab.cols["Churn"][k])]),
          rng |-> s, exc |-> NoExc]

\* ----------------------------------------------- gerar_features_interacao
IsChurned(tab) == [k \in 1..tab.n |-> tab.cols["Churn"][k] = "1"]

LastInteractionSwapped(cond, a, b) == Where(cond, b, a)
LastInteraction(cond, a, b) == Where(cond, a, b)

GerarFeaturesInteracao(tab, s) ==
    IF ~HasCol(tab, "Churn")
    THEN [tab |-> tab, rng |-> s, exc |-> CustomException(Raised("KeyError"))]
    ELSE
      LET n == tab.n
          cond == IsChurned(tab)
          a1 == Poisson(LoginsLamChurn, n, s)
          b1 == Poisson(LoginsLamStay, n, Advance(s, n))
          t1 == SetCol(tab, "num_logins_last_30d", Where(cond, a1, b1))
          a2 == Poisson(TicketsLamChurn, n, Advance(s, 2 * n))
          b2 == Poisson(TicketsLamStay, n, Advance(s, 3 * n))
          t2 == SetCol(t1, "support_tickets_last_90d", Where(cond, a2, b2))
          a3 == RandInt(DaysLoChurn, DaysHiChurn, n, Advance(s, 4 * n))
          b3 == RandInt(DaysLoStay, DaysHiStay, n, Advance(s, 5 * n))
          t3 == SetCol(t2, "last_interaction_days_ago", LastInteraction(cond, a3, b3))
      IN [tab |-> t3, rng |-> Advance(s, 6 * n), exc |-> NoExc]

\* --------------------------------------------- gerar_features_uso_recente
\* np.linspace(1, 0.3, 6)[k] = (100 - 14 * (k - 1)) / 100 for k = 1..6; the
\* product with a non-negative integer, truncated by astype(int), is the
\* floor of the exact quotient (the double products agree with it for every
\* base value below 400).
TrendPct(churned, k) == IF churned = "1" THEN 100 - 14 * (k - 1) ELSE 100

generate_usage_series(churned, s) ==
    LET base == Poisson(UsageLam, UsageLen, s)
    IN [k \in 1..UsageLen |-> (base[k] * TrendPct(churned, k)) \div 100]

RECURSIVE SumSeq(_)
SumSeq(x) == IF x = <<>> THEN 0 ELSE Head(x) + SumSeq(Tail(x))

Rat(num, den) == [num |-> num, den |-> den]

\* np.polyfit(range(6), x, 1)[0]: the least-squares slope over t = 0..5
TrendUsage(x) == Rat(SumSeq([k \in 1..UsageLen |-> (2 * (k - 1) - 5) * x[k]]), 35)
\* np.std(x): the square root of the population variance
StdUsage(x) ==
    [sqrt_of |-> Rat(UsageLen * SumSeq([k \in 1..UsageLen |-> x[k] * x[k]])
                       - SumSeq(x) * SumSeq(x), UsageLen * UsageLen)]
\* np.mean(x[-3:])
AvgFirst3(x) == Rat(SumSeq(SubSeq(x, 1, 3)), 3)
AvgLast3(x) == Rat(SumSeq(SubSeq(x, Len(x) - 2, Len(x))), 3)

DeriveUsageColumnsNoStd(tab, usage) ==
    LET n == tab.n
        t1 == SetCol(tab, "usage_last_6m", usage)
        t2 == SetCol(t1, "trend_usage", [k \in 1..n |-> TrendUsage(usage[k])])
    IN SetCol(t2, "avg_usage_last_3m", [k \in 1..n |-> AvgLast3(usage[k])])
DeriveUsageColumns(tab, usage) ==
    LET n == tab.n
        t1 == SetCol(tab, "usage_last_6m", usage)
        t2 == SetCol(t1, "trend_usage", [k \in 1..n |-> TrendUsage(usage[k])])
        t3 == SetCol(t2, "std_usage", [k \in 1..n |-> StdUsage(usage[k])])
    IN SetCol(t3, "avg_usage_last_3m", [k \in 1..n |-> AvgLast3(usage[k])])

GerarFeaturesUsoRecente(tab, s) ==
    IF ~HasCol(tab, "Churn")
    THEN [tab |-> tab, rng |-> s, exc |-> CustomException(Raised("KeyError"))]
    ELSE
      LET n == tab.n
          usage == [k \in 1..n |->
                      generate_usage_series(tab.cols["Churn"][k],
                                            Advance(s, UsageLen * (k - 1)))]
      IN [tab |-> DeriveUsageColumns(tab, usage),
          rng |-> Advance(s, UsageLen * n), exc |-> NoExc]

\* ------------------------------------------ aplicar_enriquecimento_padrao
\* a.b().c(): a raised exception leaves the rest of the chain uncalled
AplicarUsoBeforeInteracao(tab, s) ==
    LET r1 == PrepararColunaChurn(tab, s)
        r2 == IF r1.exc # NoExc THEN r1 ELSE GerarFeaturesUsoRecente(r1.tab, r1.rng)
    IN IF r2.exc # NoExc THEN r2 ELSE GerarFeaturesInteracao(r2.tab, r2.rng)
AplicarEnriquecimentoPadrao(tab, s) ==
    LET r1 == PrepararColunaChurn(tab, s)
        r2 == IF r1.exc # NoExc THEN r1 ELSE GerarFeaturesInteracao(r1.tab, r1.rng)
    IN IF r2.exc # NoExc THEN r2 ELSE GerarFeaturesUsoRecente(r2.tab, r2.rng)

\* ------------------------------------------------------- input DataFrames
LabelsIn == {"Yes", "No", "Maybe", "1", "0"}
ChurnColumns == UNION {[1..n -> LabelsIn] : n \in 0..MaxRows}

\* a caller's frame: customerID, Churn and, when pre, a column that already
\* carries the name of a feature the pipeline writes
FrameWithChurn(ch, pre) ==
    LET n == Len(ch)
        base == [n |-> n,
                 cols |-> [c \in {"customerID", "Churn"} |->
                             IF c = "Churn" THEN ch ELSE [k \in 1..n |-> k]]]
    IN IF pre THEN SetCol(base, "num_logins_last_30d", [k \in 1..n |-> 0])
       ELSE base
FrameWithoutChurn(n) ==
    [n |-> n, cols |-> [c \in {"customerID"} |-> [k \in 1..n |-> k]]]
Frames == {FrameWithChurn(ch, pre) : ch \in ChurnColumns, pre \in BOOLEAN}
            \cup {FrameWithoutChurn(n) : n \in 0..MaxRows}

\* ------------------------------------------------------------ initial state
Pending == <<"pending">>

InitPipeline(frame) ==
    /\ heap = [b \in {CallerBuf} \cup Insts |-> IF b = CallerBuf THEN frame ELSE NoFrame]
    /\ given = frame
    /\ df = [i \in Insts |-> None]
    /\ rng = Seeded(SEED)
    /\ exc = NoExc
    /\ ret = None
    /\ hist = [i \in Insts |-> <<>>]
InitThreads ==
    /\ pc = [i \in Insts |-> "new"]
    /\ idx = [i \in Insts |-> 1]
    /\ tmp = [i \in Insts |-> <<>>]
    /\ start = [i \in Insts |-> None]
    /\ foreign = [i \in Insts |-> FALSE]
InitFileSystem(files) ==
    /\ fsFiles = files
    /\ fsDirs = {}
    /\ io = <<>>
    /\ call = <<"none", <<>>>>
InitRootLookup(path, markers) ==
    /\ rootStart = path
    /\ rootMarkers = markers
    /\ rootRet = Pending

Init ==
    \E frame \in Frames :
        /\ InitPipeline(frame) /\ InitThreads
        /\ InitFileSystem({}) /\ InitRootLookup(<<>>, {})

\* ------------------------------------------- EnriquecimentoDataset.__init__
\* dataframe.copy() is a new buffer; self.df refers to it
AliasedRef(src, fresh) == src
NewBufferRef(src, fresh) == fresh

Construct(i, isFrame) ==
    /\ df[i] = None
    /\ IF isFrame
       THEN /\ heap' = [heap EXCEPT ![i] = heap[CallerBuf]]
            /\ df' = [df EXCEPT ![i] = NewBufferRef(CallerBuf, i)]
            /\ exc' = NoExc
            /\ ret' = i
       ELSE /\ exc' = CustomException(Raised("TypeError"))
            /\ ret' = None
            /\ UNCHANGED <<heap, df>>
    /\ UNCHANGED <<given, rng, hist>>

\* ----------------------------------- enrichment calls, each run to its end
Enrich(i, name, r) ==
    /\ heap' = [heap EXCEPT ![df[i]] = r.tab]
    /\ rng' = r.rng
    /\ exc' = r.exc
    /\ ret' = IF r.exc = NoExc THEN i ELSE None
    /\ hist' = [hist EXCEPT ![i] = Append(@, name)]
    /\ UNCHANGED <<given, df>>

CanCall(i) == df[i] # None /\ Len(hist[i]) < MaxOps

CallPreparar(i) ==
    /\ CanCall(i)
    /\ Enrich(i, "preparar", PrepararColunaChurn(heap[df[i]], rng))
CallInteracao(i) ==
    /\ CanCall(i)
    /\ Enrich(i, "interacao", GerarFeaturesInteracao(heap[df[i]], rng))
CallUsoRecente(i) ==
    /\ CanCall(i)
    /\ Enrich(i, "uso", GerarFeaturesUsoRecente(heap[df[i]], rng))
CallAplicar(i) ==
    /\ CanCall(i)
    /\ Enrich(i, "aplicar", AplicarEnriquecimentoPadrao(heap[df[i]], rng))

Next ==
    \/ (\E isFrame \in BOOLEAN : Construct(1, isFrame))
          /\ UNCHANGED <<concVars, ioVars, rootVars>>
    \/ CallPreparar(1) /\ UNCHANGED <<concVars, ioVars, rootVars>>
    \/ CallInteracao(1) /\ UNCHANGED <<concVars, ioVars, rootVars>>
    \/ CallUsoRecente(1) /\ UNCHANGED <<concVars, ioVars, rootVars>>
    \/ CallAplicar(1) /\ UNCHANGED <<concVars, ioVars, rootVars>>

Spec == Init /\ [][Next]_vars

\* ======================================================================
\* Two threads, each building its own pipeline object from the caller's
\* frame and calling aplicar_enriquecimento_padrao, over the one generator.
\* np.random serialises each call, so a thread switch can fall between two
\* calls of np.random but not inside one: between the six vector draws of
\* gerar_features_interacao and between the per-row calls of
\* _generate_usage_series.
\* ======================================================================
Other(i) == CHOOSE j \in Insts : j # i

\* the k-th draw of gerar_features_interacao, k = 1..6, in evaluation order
InterDrawStayFirst(k, n, s) ==
    CASE k = 1 -> Poisson(LoginsLamStay, n, s)
      [] k = 2 -> Poisson(LoginsLamChurn, n, s)
      [] k = 3 -> Poisson(TicketsLamStay, n, s)
      [] k = 4 -> Poisson(TicketsLamChurn, n, s)
      [] k = 5 -> RandInt(DaysLoStay, DaysHiStay, n, s)
      [] OTHER -> RandInt(DaysLoChurn, DaysHiChurn, n, s)
InterDraw(k, n, s) ==
    CASE k = 1 -> Poisson(LoginsLamChurn, n, s)
      [] k = 2 -> Poisson(LoginsLamStay, n, s)
      [] k = 3 -> Poisson(TicketsLamChurn, n, s)
      [] k = 4 -> Poisson(TicketsLamStay, n, s)
      [] k = 5 -> RandInt(DaysLoChurn, DaysHiChurn, n, s)
      [] OTHER -> RandInt(DaysLoStay, DaysHiStay, n, s)
\* the column assigned once the k-th draw (k even) has been made
InterColumn(k) ==
    CASE k = 2 -> "num_logins_last_30d"
      [] k = 4 -> "support_tickets_last_90d"
      [] OTHER -> "last_interaction_days_ago"

\* thread i has drawn from the generator and has draws still to make
MidEnrichment(i) ==
    \/ pc[i] = "inter" /\ idx[i] > 1
    \/ pc[i] = "uso" /\ idx[i] <= heap[df[i]].n
\* a draw by thread i falls inside the other thread's enrichment
NoteDraw(i) ==
    foreign' = [j \in Insts |-> IF j # i /\ MidEnrichment(j) THEN TRUE ELSE foreign[j]]

ThreadConstruct(i) ==
    /\ pc[i] = "new"
    /\ Construct(i, TRUE)
    /\ pc' = [pc EXCEPT ![i] = "prep"]
    /\ UNCHANGED <<idx, tmp, start, foreign>>

ThreadPreparar(i) ==
    /\ pc[i] = "prep"
    /\ LET r == PrepararColunaChurn(heap[df[i]], rng)
       IN /\ heap' = [heap EXCEPT ![df[i]] = r.tab]
          /\ exc' = r.exc
          /\ ret' = IF r.exc = NoExc THEN i ELSE None
          /\ pc' = [pc EXCEPT ![i] = IF r.exc = NoExc THEN "inter" ELSE "failed"]
    /\ UNCHANGED <<given, df, rng, hist, idx, tmp, start, foreign>>

ThreadInterDraw(i) ==
    /\ pc[i] = "inter"
    /\ LET tab == heap[df[i]]
           k == idx[i]
           v == InterDraw(k, tab.n, rng)
       IN /\ rng' = Advance(rng, tab.n)
          /\ IF k % 2 = 1
             THEN /\ tmp' = [tmp EXCEPT ![i] = v]
                  /\ heap' = heap
             ELSE /\ tmp' = [tmp EXCEPT ![i] = <<>>]
                  /\ heap' = [heap EXCEPT ![df[i]] =
                                SetCol(tab, InterColumn(k), Where(IsChurned(tab), tmp[i], v))]
          /\ start' = [start EXCEPT ![i] = IF k = 1 THEN rng ELSE @]
          /\ idx' = [idx EXCEPT ![i] = IF k = 6 THEN 1 ELSE k + 1]
          /\ pc' = [pc EXCEPT ![i] = IF k = 6 THEN "uso" ELSE "inter"]
    /\ NoteDraw(i)
    /\ UNCHANGED <<given, df, exc, ret, hist>>

ThreadUsoRow(i) ==
    /\ pc[i] = "uso"
    /\ idx[i] <= heap[df[i]].n
    /\ tmp' = [tmp EXCEPT ![i] =
                 Append(@, generate_usage_series(heap[df[i]].cols["Churn"][idx[i]], rng))]
    /\ rng' = Advance(rng, UsageLen)
    /\ idx' = [idx EXCEPT ![i] = @ + 1]
    /\ NoteDraw(i)
    /\ UNCHANGED <<heap, given, df, exc, ret, hist, pc, start>>

ThreadUsoDerive(i) ==
    /\ pc[i] = "uso"
    /\ idx[i] > heap[df[i]].n
    /\ heap' = [heap EXCEPT ![df[i]] = DeriveUsageColumns(@, tmp[i])]
    /\ tmp' = [tmp EXCEPT ![i] = <<>>]
    /\ pc' = [pc EXCEPT ![i] = "done"]
    /\ exc' = NoExc
    /\ ret' = i
    /\ UNCHANGED <<given, df, rng, hist, idx, start, foreign>>

NextConc ==
    \/ \E i \in Insts : ThreadConstruct(i) /\ UNCHANGED <<ioVars, rootVars>>
    \/ \E i \in Insts : ThreadPreparar(i) /\ UNCHANGED <<ioVars, rootVars>>
    \/ \E i \in Insts : ThreadInterDraw(i) /\ UNCHANGED <<ioVars, rootVars>>
    \/ \E i \in Insts : ThreadUsoRow(i) /\ UNCHANGED <<ioVars, rootVars>>
    \/ \E i \in Insts : ThreadUsoDerive(i) /\ UNCHANGED <<ioVars, rootVars>>

\* the frames the two threads are run on: Yes/No label columns of at most
\* MaxConcRows rows, and a frame that has no Churn column
ConcFrames ==
    {FrameWithChurn(ch, FALSE) : ch \in UNION {[1..n -> {"Yes", "No"}] : n \in 0..MaxConcRows}}
        \cup {FrameWithoutChurn(n) : n \in 0..MaxConcRows}
InitConc ==
    \E frame \in ConcFrames :
        /\ InitPipeline(frame) /\ InitThreads
        /\ InitFileSystem({}) /\ InitRootLookup(<<>>, {})

SpecConc == InitConc /\ [][NextConc]_vars

\* C9: a thread whose enrichment no other consumer's draw fell into leaves
\* the buffer that the uninterrupted run leaves from the same frame and the
\* same generator state: runs from the seed repeat.  (The witness is a state
\* in which the other thread, whose draws were interleaved, holds a buffer
\* that differs from its uninterrupted run from the seed.)
C9_SequentialRunsRepeat ==
    \A i \in Insts :
        (pc[i] = "done" /\ ~foreign[i])
            => LET r == AplicarEnriquecimentoPadrao(given, start[i])
               IN r.exc = NoExc /\ heap[df[i]] = r.tab
C9_Witness ==
    \E i \in Insts :
        LET j == Other(i)
        IN /\ pc[i] = "done" /\ ~foreign[i]
           /\ heap[df[i]] = AplicarEnriquecimentoPadrao(given, start[i]).tab
           /\ pc[j] = "done" /\ foreign[j]
           /\ start[j] = Seeded(SEED)
           /\ heap[df[j]] # AplicarEnriquecimentoPadrao(given, Seeded(SEED)).tab

\* ======================================================================
\* from_file and salvar over a file system
\* ======================================================================
UpperCase == <<"A", "B", "C", "D", "E", "F", "G", "H", "I", "J", "K", "L", "M",
               "N", "O", "P", "Q", "R", "S", "T", "U", "V", "W", "X", "Y", "Z">>
LowerCase == <<"a", "b", "c", "d", "e", "f", "g", "h", "i", "j", "k", "l", "m",
               "n", "o", "p", "q", "r", "s", "t", "u", "v", "w", "x", "y", "z">>
\* str.lower()
LowerChar(c) ==
    IF \E k \in 1..Len(UpperCase) : UpperCase[k] = c
    THEN LowerCase[CHOOSE k \in 1..Len(UpperCase) : UpperCase[k] = c]
    ELSE c
Lower(str) == [k \in 1..Len(str) |-> LowerChar(str[k])]

\* str.rfind(c), 1-based; 0 when c does not occur
RFind(str, c) ==
    IF \E k \in 1..Len(str) : str[k] = c
    THEN CHOOSE k \in 1..Len(str) : str[k] = c /\ \A j \in (k + 1)..Len(str) : str[j] # c
    ELSE 0

\* os.path.splitext(p)[1]: from the last dot of the last component, unless
\* that component has nothing but dots before it
SplitExt(p) ==
    LET sep == RFind(p, "/")
        dot == RFind(p, ".")
    IN IF dot > sep /\ (\E k \in (sep + 1)..(dot - 1) : p[k] # ".")
       THEN SubSeq(p, dot, Len(p))
       ELSE <<>>

RECURSIVE RStripSlash(_)
RStripSlash(str) ==
    IF str # <<>> /\ str[Len(str)] = "/"
    THEN RStripSlash(SubSeq(str, 1, Len(str) - 1))
    ELSE str
\* os.path.dirname(p)
DirName(p) ==
    LET head == SubSeq(p, 1, RFind(p, "/"))
    IN IF head # <<>> /\ (\E k \in 1..Len(head) : head[k] # "/")
       THEN RStripSlash(head)
       ELSE head

ExtCsv == <<".", "c", "s", "v">>
ExtXlsx == <<".", "x", "l", "s", "x">>
ExtParquet == <<".", "p", "a", "r", "q", "u", "e", "t">>
\* the keys of _estrategia_leitura and of _estrategias_salvamento
ReaderExts == {ExtCsv, ExtXlsx, ExtParquet}
WriterExts == {ExtCsv, ExtParquet}

\* the paths the calls are made with
PathCsv == <<"a">> \o ExtCsv
PathCsvUpper == <<"a", ".", "C", "S", "V">>
PathXlsx == <<"a">> \o ExtXlsx
PathXlsxUpper == <<"a", ".", "X", "l", "s", "x">>
PathParquet == <<"a">> \o ExtParquet
PathTxt == <<"a", ".", "t", "x", "t">>
PathHidden == ExtCsv
PathDirCsv == <<"o", "/">> \o PathCsv
PathDirXlsx == <<"o", "/">> \o PathXlsx
PathDirTxt == <<"o", ".", "d", "/", "a">>
PathUnderCsv == PathCsv \o <<"/">> \o PathCsv
Paths == {PathCsv, PathCsvUpper, PathXlsx, PathXlsxUpper, PathParquet, PathTxt,
          PathHidden, PathDirCsv, PathDirXlsx, PathDirTxt, PathUnderCsv}

FilePaths == {f.path : f \in fsFiles}
FileData(p) == (CHOOSE f \in fsFiles : f.path = p).data
WriteFile(p, data) ==
    {f \in fsFiles : f.path # p} \cup {[path |-> p, data |-> data]}

\* LeitorCSVStrategy.ler / LeitorXLSXStrategy.ler / LeitorParquetStrategy.ler:
\* the frame stored at the path, or the wrapped error of the failed read
Ler(p) ==
    IF p \in FilePaths
    THEN [data |-> FileData(p), exc |-> NoExc]
    ELSE [data |-> NoFrame,
          exc |-> CustomException(Raised(IF p \in fsDirs THEN "IsADirectoryError"
                                         ELSE "FileNotFoundError"))]

FromFile(i, p) ==
    LET ext == Lower(SplitExt(p))
    IN /\ call' = <<"from_file", p>>
       /\ IF ext \notin ReaderExts
          THEN \* except KeyError: print, raise ValueError
               /\ exc' = Raised("ValueError")
               /\ ret' = None
               /\ io' = <<>>
               /\ UNCHANGED <<heap, df>>
          ELSE LET r == Ler(p)
               IN /\ io' = <<<<"read", p>>>>
                  /\ IF r.exc # NoExc
                     THEN \* except Exception as e: raise CustomException(e, sys)
                          /\ exc' = CustomException(r.exc)
                          /\ ret' = None
                          /\ UNCHANGED <<heap, df>>
                     ELSE \* cls(dataframe_carregado)
                          /\ heap' = [heap EXCEPT ![i] = r.data]
                          /\ df' = [df EXCEPT ![i] = NewBufferRef(CallerBuf, i)]
                          /\ exc' = NoExc
                          /\ ret' = i
       /\ UNCHANGED <<given, rng, hist, fsFiles, fsDirs>>

\* the directories os.makedirs(d) has to make: d and the ancestors of d
DirChain(d) ==
    {SubSeq(d, 1, k) : k \in {j \in 1..Len(d) : j = Len(d) \/ d[j + 1] = "/"}}
        \ {<<>>}

Salvar(i, p) ==
    LET d == DirName(p)
        ext == Lower(SplitExt(p))
        mk == d # <<>>
        mkFails == mk /\ DirChain(d) \cap FilePaths # {}
        dirsAfter == IF mk /\ ~mkFails THEN fsDirs \cup DirChain(d) ELSE fsDirs
        ioDirs == IF dirsAfter # fsDirs THEN <<<<"mkdir", d>>>> ELSE <<>>
    IN /\ df[i] # None
       /\ call' = <<"salvar", p>>
       /\ ret' = None
       /\ fsDirs' = dirsAfter
       /\ IF mkFails
          THEN \* os.makedirs is outside the try block
               /\ exc' = Raised(IF d \in FilePaths THEN "FileExistsError"
                                ELSE "NotADirectoryError")
               /\ io' = <<>>
               /\ UNCHANGED fsFiles
          ELSE IF ext \notin WriterExts
          THEN \* except KeyError: print, raise ValueError
               /\ exc' = Raised("ValueError")
               /\ io' = ioDirs
               /\ UNCHANGED fsFiles
          ELSE IF p \in dirsAfter
          THEN \* the writer's error, wrapped by the strategy and again by salvar
               /\ exc' = CustomException(CustomException(Raised("IsADirectoryError")))
               /\ io' = ioDirs \o <<<<"write", p>>>>
               /\ UNCHANGED fsFiles
          ELSE /\ exc' = NoExc
               /\ io' = ioDirs \o <<<<"write", p>>>>
               /\ fsFiles' = WriteFile(p, heap[df[i]])
       /\ UNCHANGED <<heap, given, df, rng, hist>>

\* the data files found on disk at the start
InputFiles(frame) ==
    {[path |-> PathXlsx, data |-> frame], [path |-> PathCsvUpper, data |-> frame]}
IOFrames == {FrameWithChurn(<<"Yes", "No">>, FALSE), FrameWithoutChurn(1)}
InitIO ==
    \E frame \in IOFrames :
        \E files \in SUBSET InputFiles(frame) :
            /\ InitPipeline(frame) /\ InitThreads
            /\ InitFileSystem(files) /\ InitRootLookup(<<>>, {})

NextIO ==
    \/ (\E isFrame \in BOOLEAN : Construct(1, isFrame))
          /\ UNCHANGED <<concVars, ioVars, rootVars>>
    \/ \E p \in Paths : FromFile(1, p) /\ UNCHANGED <<concVars, rootVars>>
    \/ \E p \in Paths : Salvar(1, p) /\ UNCHANGED <<concVars, rootVars>>

SpecIO == InitIO /\ [][NextIO]_vars

\* C1: from_file selects a reader exactly for the extensions .csv, .xlsx,
\* .parquet and salvar a writer exactly for .csv, .parquet, whatever the
\* case of the letters; for any other extension the call raises the
\* unsupported-format error having performed no I/O: nothing read, nothing
\* written, no directory created.
C1_UnsupportedBeforeIO ==
    LET ext == Lower(SplitExt(call[2]))
        unsupported == Kind(exc) = "ValueError"
    IN /\ call[1] = "from_file" =>
            /\ unsupported <=> ext \notin {ExtCsv, ExtXlsx, ExtParquet}
            /\ unsupported => io = <<>>
       /\ call[1] = "salvar" =>
            /\ unsupported => ext \notin {ExtCsv, ExtParquet}
            /\ unsupported => io = <<>>

\* C2: a call of a public method of the pipeline either returns or raises
\* CustomException; no exception of another kind reaches the caller.
C2_OnlyCustomException == Kind(exc) \in {"none", "CustomException"}

\* ======================================================================
\* diretorio_raiz: the project-root lookup of dataloader.py
\* ======================================================================
\* A directory is the sequence of its components below the root, <<>> the
\* root itself; rootMarkers holds the directories with a pyproject.toml.
ReturnedNone == <<"None">>
DirNames == {"a", "b"}
StartPaths == UNION {[1..d -> DirNames] : d \in 0..MaxDepth}

\* [start_path] + list(start_path.parents): nearest first, the root last
Candidates(path) == [k \in 1..(Len(path) + 1) |-> SubSeq(path, 1, Len(path) + 1 - k)]

\* the condition of line 14, (parent / 'pyproject.toml').exists: the bound
\* method itself, not its result, and a method object is always true
MarkerTest(dir, markers) == TRUE

RECURSIVE FirstMatch(_, _, _)
FirstMatch(cands, k, markers) ==
    IF k > Len(cands) THEN ReturnedNone
    ELSE IF MarkerTest(cands[k], markers) THEN cands[k]
    ELSE FirstMatch(cands, k + 1, markers)

DiretorioRaiz(path, markers) == FirstMatch(Candidates(path), 1, markers)

CallDiretorioRaiz ==
    /\ rootRet = Pending
    /\ rootRet' = DiretorioRaiz(rootStart, rootMarkers)
    /\ UNCHANGED <<rootStart, rootMarkers>>

InitRoot ==
    \E path \in StartPaths :
        \E markers \in SUBSET {SubSeq(path, 1, k) : k \in 0..Len(path)} :
            /\ InitPipeline(FrameWithoutChurn(0)) /\ InitThreads
            /\ InitFileSystem({}) /\ InitRootLookup(path, markers)

NextRoot == CallDiretorioRaiz /\ UNCHANGED <<pipeVars, concVars, ioVars>>

SpecRoot == InitRoot /\ [][NextRoot]_vars

\* C10: diretorio_raiz returns the nearest directory among start_path and
\* its ancestors that contains pyproject.toml, and never a directory that
\* does not contain it.
C10_NearestMarkedDirectory ==
    (rootRet # Pending /\ rootRet # ReturnedNone)
        => /\ rootRet \in rootMarkers
           /\ \A k \in 0..Len(rootStart) :
                SubSeq(rootStart, 1, k) \in rootMarkers => k <= Len(rootRet)

\* ======================================================================
\* Properties of the enrichment calls (specification Spec)
\* ======================================================================
Last(h) == h[Len(h)]
Obj == heap[df[1]]
Built == df[1] # None
OnlyYesNo(tab) ==
    /\ HasCol(tab, "Churn")
    /\ \A k \in 1..tab.n : tab.cols["Churn"][k] \in {"Yes", "No"}
RowCountKept ==
    /\ Obj.n = given.n
    /\ \A c \in Columns(Obj) : Len(Obj.cols[c]) = given.n

\* C3 as stated: on a Yes/No frame of N rows, aplicar_enriquecimento_padrao
\* keeps N rows and leaves exactly 8 columns more than the input has.
C3_EightMoreColumns ==
    (Built /\ OnlyYesNo(given) /\ hist[1] = <<"aplicar">>)
        => /\ RowCountKept
           /\ Cardinality(Columns(Obj)) = Cardinality(Columns(given)) + 8

\* C3 amended: on a Yes/No frame of N rows every enrichment step keeps N rows
\* in every column, and after aplicar_enriquecimento_padrao the columns are
\* the input's columns together with the seven feature columns: 7 more than
\* the input has, less the feature names the input already carried.
C3_SevenMoreColumns ==
    (Built /\ OnlyYesNo(given))
        => /\ RowCountKept
           /\ hist[1] = <<"aplicar">> =>
                /\ exc = NoExc
                /\ Columns(Obj) = Columns(given) \cup FeatureColumns
                /\ Cardinality(Columns(Obj)) =
                     Cardinality(Columns(given)) + 7
                       - Cardinality(Columns(given) \cap FeatureColumns)
C3_Witness ==
    /\ Built /\ OnlyYesNo(given) /\ given.n >= 1
    /\ hist[1] = <<"aplicar">>
    /\ Columns(given) \cap FeatureColumns = {}
    /\ Cardinality(Columns(Obj)) = Cardinality(Columns(given)) + 7

\* C4: calling preparar_coluna_churn, gerar_features_interacao and
\* gerar_features_uso_recente in that order on a fresh object leaves the
\* buffer, the generator, the returned object and the raised exception that
\* aplicar_enriquecimento_padrao leaves from the same buffer and generator.
C4_AplicarIsSequence ==
    (Built /\ hist[1] = <<"preparar", "interacao", "uso">>)
        => LET r == AplicarEnriquecimentoPadrao(given, Seeded(SEED))
           IN /\ Obj = r.tab
              /\ rng = r.rng
              /\ exc = r.exc
              /\ ret = IF r.exc = NoExc THEN 1 ELSE None
C4_Witness ==
    /\ Built /\ hist[1] = <<"preparar", "interacao", "uso">>
    /\ exc = NoExc /\ ret = 1
    /\ given.n >= 1 /\ OnlyYesNo(given)
    /\ rng # Seeded(SEED)

\* C5: right after gerar_features_interacao, a row whose label is 1 has
\* last_interaction_days_ago in [15,60) and a row whose label is 0 has it in
\* [1,15).
C5_LastInteractionRange ==
    (Built /\ hist[1] # <<>> /\ Last(hist[1]) = "interacao" /\ exc = NoExc)
        => \A k \in 1..Obj.n :
             LET d == Obj.cols["last_interaction_days_ago"][k]
                 label == Obj.cols["Churn"][k]
             IN /\ d \in Int
                /\ label = "1" => (DaysLoChurn <= d /\ d < DaysHiChurn)
                /\ label = "0" => (DaysLoStay <= d /\ d < DaysHiStay)
C5_Witness ==
    /\ Built /\ hist[1] # <<>> /\ Last(hist[1]) = "interacao" /\ exc = NoExc
    /\ \E k \in 1..Obj.n : Obj.cols["Churn"][k] = "1"
    /\ \E k \in 1..Obj.n : Obj.cols["Churn"][k] = "0"

\* C6: right after gerar_features_uso_recente, every row, whatever its
\* label, has a usage_last_6m of exactly 6 integers, and avg_usage_last_3m is
\* the mean of that row's last 3 usage values.
C6_UsageSeries ==
    (Built /\ hist[1] # <<>> /\ Last(hist[1]) = "uso" /\ exc = NoExc)
        => \A k \in 1..Obj.n :
             LET u == Obj.cols["usage_last_6m"][k]
                 avg == Obj.cols["avg_usage_last_3m"][k]
             IN /\ Len(u) = 6
                /\ \A j \in 1..Len(u) : u[j] \in Int
                /\ 3 * avg.num = avg.den * (u[4] + u[5] + u[6])
C6_Witness ==
    /\ Built /\ hist[1] # <<>> /\ Last(hist[1]) = "uso" /\ exc = NoExc
    /\ \E k \in 1..Obj.n : Obj.cols["Churn"][k] = "1"
    /\ \E k \in 1..Obj.n : Obj.cols["Churn"][k] \notin {"0", "1"}

\* C7: on a Yes/No column, preparar_coluna_churn applied once leaves 1 for
\* Yes and 0 for No, row by row; applied twice it leaves every row missing,
\* and neither call raises.
C7_NotIdempotent ==
    (Built /\ OnlyYesNo(given))
        => /\ hist[1] = <<"preparar">> =>
                /\ exc = NoExc
                /\ \A k \in 1..given.n :
                     Obj.cols["Churn"][k] =
                        IF given.cols["Churn"][k] = "Yes" THEN "1" ELSE "0"
           /\ hist[1] = <<"preparar", "preparar">> =>
                /\ exc = NoExc
                /\ \A k \in 1..given.n : Obj.cols["Churn"][k] = "NaN"
C7_Witness ==
    /\ Built /\ OnlyYesNo(given) /\ given.n >= 1
    /\ hist[1] = <<"preparar", "preparar">>
    /\ exc = NoExc
    /\ Obj # PrepararColunaChurn(given, rng).tab

\* C8: whatever enrichment calls are made on the pipeline object, the buffer
\* the caller passed keeps the columns and values it had at construction.
C8_CallerBufferKept == heap[CallerBuf] = given
C8_Witness ==
    /\ Built /\ hist[1] # <<>> /\ exc = NoExc
    /\ Obj # given
    /\ heap[CallerBuf] = given

====
